---- MODULE Spec2Model ----
(***************************************************************************)
(* Model of the two Log classes of dmmdjs/dtools:                          *)
(*   - src/classes/Log.js       (operators Log_*,  variant "classes")      *)
(*   - src/unnamed/part_000     (operators Log2_*, variant "part000")      *)
(* together with the part of node:fs both rely on: a file at one path and  *)
(* the write streams fs.createWriteStream returns, whose open (flags "w"), *)
(* writes and 'close' event complete asynchronously.                       *)
(*                                                                         *)
(* Text is a sequence of one-character strings; "ESC" stands for \x1b,     *)
(* "NL" for \n and "NUL" for a zero byte.  JS booleans are the strings     *)
(* "true"/"false" so that option records can hold values of every type.    *)
(* An options object is a function from its own keys to their values.      *)
(***************************************************************************)
EXTENDS Integers, Sequences, FiniteSets, TLC

VARIABLES
    variant,      \* which class the instance is: "classes" or "part000"
    fileExists,   \* fs.existsSync(this.file)
    dirExists,    \* fs.existsSync(path.dirname(this.file))
    fileContent,  \* bytes of the file at this.file
    options,      \* this.options / this.#options
    stream,       \* this.stream / this.#stream: 0 is null, else a stream id
    streams,      \* every write stream created so far, by id
    formatter,    \* this.#formatter (part_000)
    logger,       \* this.#logger (part_000)
    subscriber,   \* the notification whose registered subscriber throws, or "none"
    calls,        \* number of method calls made on the instance
    last,         \* the last method call: its name, its error, what it emitted
    atReturn,     \* TRUE in the state a method call returned (or threw) in
    rendered      \* the last direct call of the formatter: its options, its result

vars == << variant, fileExists, dirExists, fileContent, options, stream,
           streams, formatter, logger, subscriber, calls, last, atReturn, rendered >>

\* ------------------------------------------------------------------ bounds

MaxStreams == 3
MaxCalls == 4

\* ------------------------------------------------------------- JS helpers

Has(o, k) == k \in DOMAIN o

\* Truthiness of o[k]; a missing key reads undefined. A Boolean object is
\* truthy whatever it wraps.
Truthy(o, k) == Has(o, k) /\ o[k] \in {"true", "Boolean(true)", "Boolean(false)"}

\* Object.assign(t, s) on plain objects: s's own keys win.
Assign(t, s) ==
    [k \in (DOMAIN t) \cup (DOMAIN s) |-> IF k \in DOMAIN s THEN s[k] ELSE t[k]]

Empty == << >>

RECURSIVE Concat(_)
Concat(ss) == IF ss = << >> THEN << >> ELSE Head(ss) \o Concat(Tail(ss))

RECURSIVE Join(_, _)
Join(ss, sep) ==
    IF ss = << >> THEN << >>
    ELSE IF Len(ss) = 1 THEN ss[1]
    ELSE ss[1] \o sep \o Join(Tail(ss), sep)

Digit(d) == CASE d = 0 -> "0" [] d = 1 -> "1" [] d = 2 -> "2" [] d = 3 -> "3"
              [] d = 4 -> "4" [] d = 5 -> "5" [] d = 6 -> "6" [] d = 7 -> "7"
              [] d = 8 -> "8" [] OTHER -> "9"

\* String(n) for a non-negative integer.
RECURSIVE NumberToString(_)
NumberToString(n) ==
    IF n < 10 THEN << Digit(n) >> ELSE NumberToString(n \div 10) \o << Digit(n % 10) >>

\* String.prototype.toUpperCase on the alignment values in use.
toUpperCase(s) ==
    CASE s \in {"right", "Right", "RIGHT"} -> "RIGHT"
      [] s \in {"left", "Left", "LEFT"} -> "LEFT"
      [] OTHER -> s

\* The filler of padStart/padEnd: padString repeated, cut to n characters.
RECURSIVE Filler(_, _)
Filler(pad, n) ==
    IF n <= 0 THEN << >>
    ELSE IF Len(pad) >= n THEN SubSeq(pad, 1, n)
    ELSE pad \o Filler(pad, n - Len(pad))

padStart(s, width, pad) ==
    IF width <= Len(s) \/ pad = << >> THEN s ELSE Filler(pad, width - Len(s)) \o s

padEnd(s, width, pad) ==
    IF width <= Len(s) \/ pad = << >> THEN s ELSE s \o Filler(pad, width - Len(s))

\* The computed call with the two methods exchanged.
padSwapped(method, s, width, padding) ==
    IF method = "padStart" THEN padEnd(s, width, padding) ELSE padStart(s, width, padding)

pad(method, s, width, padding) ==
    IF method = "padStart" THEN padStart(s, width, padding) ELSE padEnd(s, width, padding)

\* ------------------------------------------------------------- formatting

ESC == "ESC"
Reset == << ESC, "[", "0", "m" >>

\* A style code, or a sub-list of codes: [isArray |-> FALSE, code |-> n] or
\* [isArray |-> TRUE, codes |-> <<n, ...>>].
Code(n) == [isArray |-> FALSE, code |-> n]
Codes(ns) == [isArray |-> TRUE, codes |-> ns]

\* A styling value: a list of the above, or (part_000 only) one bare code.
List(items) == [isArray |-> TRUE, items |-> items]

RECURSIVE JoinNumbers(_)
JoinNumbers(ns) ==
    IF ns = << >> THEN << >>
    ELSE IF Len(ns) = 1 THEN NumberToString(ns[1])
    ELSE NumberToString(ns[1]) \o << ";" >> \o JoinNumbers(Tail(ns))

\* `\x1b[${Array.isArray(u) ? u.join(";") : u}m`
Directive(u) ==
    << ESC, "[" >> \o (IF u.isArray THEN JoinNumbers(u.codes) ELSE NumberToString(u.code))
        \o << "m" >>

RECURSIVE Directives(_)
Directives(items) ==
    IF items = << >> THEN << >> ELSE Directive(Head(items)) \o Directives(Tail(items))

\* Intl.DateTimeFormat.prototype.format: the timestamps in use are small
\* integers and render as "T" followed by their digits.
defaultDateTimeFormatter(dateTime) == << "T" >> \o NumberToString(dateTime)

\* Date.now() at the time of the call.
Now == 7

Log_FormatDefaults ==
    [ dateTime |-> Now, dateTimeAlignment |-> "LEFT", dateTimeMinimumWidth |-> 25,
      dateTimePadding |-> << " " >>, dateTimeStyling |-> List(<< Code(94), Code(1) >>),
      end |-> << "NL" >>, message |-> << "M", "E", "S", "S", "A", "G", "E" >>,
      messageStyling |-> List(<< Code(92) >>), raw |-> "true",
      separator |-> << " ", "|", " " >>,
      separatorStyling |-> List(<< Code(90), Code(1) >>),
      title |-> << "T", "I", "T", "L", "E" >>, titleAlignment |-> "LEFT",
      titleMinimumWidth |-> 20, titlePadding |-> << " " >>,
      titleStyling |-> List(<< Code(93), Code(1) >>) ]

\* classes/Log.js: styles.map(...).join("") + text + "\x1b[0m"
Log_styled(styles, text) == Directives(styles.items) \o text \o Reset

\* classes/Log.js, static defaultFormatter(options)
Log_defaultFormatter(fo) ==
    LET parsedOptions == Assign(Log_FormatDefaults, fo)
        parsedDateTime ==
            pad(IF toUpperCase(parsedOptions.dateTimeAlignment) = "RIGHT"
                    THEN "padStart" ELSE "padEnd",
                defaultDateTimeFormatter(parsedOptions.dateTime),
                parsedOptions.dateTimeMinimumWidth, parsedOptions.dateTimePadding)
        parsedTitle ==
            pad(IF toUpperCase(parsedOptions.titleAlignment) = "RIGHT"
                    THEN "padStart" ELSE "padEnd",
                parsedOptions.title,
                parsedOptions.titleMinimumWidth, parsedOptions.titlePadding)
    IN  IF parsedOptions.raw = "true"
        THEN Join(<< parsedDateTime, parsedTitle, parsedOptions.message >>,
                  parsedOptions.separator) \o parsedOptions.end
        ELSE Join(<< Log_styled(parsedOptions.dateTimeStyling, parsedDateTime),
                     Log_styled(parsedOptions.titleStyling, parsedTitle),
                     Log_styled(parsedOptions.messageStyling, parsedOptions.message) >>,
                  Log_styled(parsedOptions.separatorStyling, parsedOptions.separator))
             \o parsedOptions.end

Log2_FormatDefaults ==
    [ dateTime |-> Now, dateTimeAlignment |-> "LEFT", dateTimeMinimumWidth |-> 25,
      dateTimePadding |-> << " " >>, dateTimeStyling |-> List(<< Code(1), Code(94) >>),
      end |-> << "NL" >>, message |-> << "M", "E", "S", "S", "A", "G", "E" >>,
      messageStyling |-> Code(92),
      separator |-> << " ", "|", " " >>,
      separatorStyling |-> List(<< Code(1), Code(90) >>),
      title |-> << "T", "I", "T", "L", "E" >>, titleAlignment |-> "LEFT",
      titleMinimumWidth |-> 20, titlePadding |-> << " " >>,
      titleStyling |-> List(<< Code(1), Code(93) >>) ]

\* The template with the reset sequence after every text.
Log2_styledAlwaysReset(styling, text) ==
    (IF styling.isArray THEN Directives(styling.items)
     ELSE << ESC, "[" >> \o NumberToString(styling.code) \o << "m" >>)
    \o text \o Reset

\* part_000: the template of lines 175-179
Log2_styled(styling, text) ==
    (IF styling.isArray THEN Directives(styling.items)
     ELSE << ESC, "[" >> \o NumberToString(styling.code) \o << "m" >>)
    \o text
    \o (IF styling.isArray /\ Len(styling.items) = 0 THEN << >> ELSE Reset)

\* part_000, static defaultFormatter(options)
Log2_defaultFormatter(fo) ==
    LET override == Assign(Log2_FormatDefaults, fo)
        dateTime ==
            pad(IF override.dateTimeAlignment = "RIGHT" THEN "padStart" ELSE "padEnd",
                defaultDateTimeFormatter(override.dateTime),
                override.dateTimeMinimumWidth, override.dateTimePadding)
        title ==
            pad(IF override.titleAlignment = "RIGHT" THEN "padStart" ELSE "padEnd",
                override.title, override.titleMinimumWidth, override.titlePadding)
    IN  Join(<< Log2_styled(override.dateTimeStyling, dateTime),
                Log2_styled(override.titleStyling, title),
                Log2_styled(override.messageStyling, override.message) >>,
             Log2_styled(override.separatorStyling, override.separator))
        \o override.end

\* Calls a formatter function value with the argument list `params`.
\* Object(undefined) is {}: a missing first argument reads as no options.
FirstObject(params) == IF Len(params) >= 1 THEN params[1] ELSE << >>

Hello == << "h", "e", "l", "l", "o", "NL" >>

CallFormatter(fn, params) ==
    CASE fn = "Log.defaultFormatter" -> Log_defaultFormatter(FirstObject(params))
      [] fn = "Log2.defaultFormatter" -> Log2_defaultFormatter(FirstObject(params))
      [] OTHER -> Hello      \* () => "hello\n", as in the test script

\* ------------------------------------------------ node:fs and node:stream

StreamIds == 1 .. MaxStreams

NoStream ==
    [ phase |-> "none", destroyed |-> FALSE, buf |-> << >>, log |-> << >>,
      dropped |-> << >>, attached |-> FALSE, pos |-> 0, onClose |-> FALSE, onReady |-> FALSE ]

\* The machine state an operation runs on: the variables, plus what the call
\* has emitted and thrown so far. `veto` names the notification whose
\* subscriber throws ("none": no subscriber throws).
Ok(m) == m.err = "none"

Throw(m, e) == IF Ok(m) THEN [m EXCEPT !.err = e] ELSE m

Return(m, v) == IF Ok(m) /\ m.ret = "pending" THEN [m EXCEPT !.ret = v] ELSE m

Live(m) == m.stream # 0 /\ ~m.streams[m.stream].destroyed

\* EventEmitter.prototype.emit: the subscribers run synchronously and see the
\* instance as it is now; what a subscriber throws propagates to the caller.
emit(m, name, arg) ==
    IF ~Ok(m) THEN m
    ELSE LET e == [ name |-> name, arg |-> arg, stream |-> m.stream,
                    live |-> Live(m), exists |-> m.exists ]
             m1 == [m EXCEPT !.events = Append(@, e)]
         IN  IF m.veto = name THEN Throw(m1, "HandlerError") ELSE m1

FreeIds(ss) == { i \in StreamIds : ss[i].phase = "none" }

FreeId(ss) == CHOOSE i \in FreeIds(ss) : \A j \in FreeIds(ss) : i <= j

\* fs.createWriteStream(file): a new stream whose open(file, "w") is pending;
\* the reference is stored in this.stream.
createWriteStream(m) ==
    IF ~Ok(m) THEN m
    ELSE IF FreeIds(m.streams) = {} THEN Throw(m, "OutOfStreams")
    ELSE LET id == FreeId(m.streams)
         IN  [m EXCEPT !.streams[id] = [NoStream EXCEPT !.phase = "opening"],
                       !.stream = id]

\* A stream.write that hands every chunk to the stream twice.
streamWriteTwice(m, chunk) ==
    IF ~Ok(m) \/ m.stream = 0 THEN m
    ELSE IF m.streams[m.stream].destroyed THEN m
    ELSE [m EXCEPT !.streams[m.stream].buf = @ \o << chunk, chunk >>,
                   !.streams[m.stream].log = @ \o << chunk, chunk >>]

\* stream.write(chunk): queued until the descriptor is open and the writes
\* before it are done. A destroyed stream takes nothing.
streamWrite(m, chunk) ==
    IF ~Ok(m) \/ m.stream = 0 THEN m
    ELSE IF m.streams[m.stream].destroyed THEN m
    ELSE [m EXCEPT !.streams[m.stream].buf = Append(@, chunk),
                   !.streams[m.stream].log = Append(@, chunk)]

\* stream.destroy(): the stream is destroyed at once and the writes still
\* queued are discarded; the descriptor is closed and 'close' emitted later.
streamDestroy(m) ==
    IF ~Ok(m) \/ m.stream = 0 THEN m
    ELSE [m EXCEPT !.streams[m.stream].destroyed = TRUE,
                   !.streams[m.stream].dropped = @ \o m.streams[m.stream].buf,
                   !.streams[m.stream].buf = << >>]

\* fs.mkdirSync(directory, ...): the directory's parent exists.
mkdirSync(m) == IF Ok(m) THEN [m EXCEPT !.dir = TRUE] ELSE m

\* fs.openSync(file, "w+"): the file exists and is empty.
openSync(m) == IF Ok(m) THEN [m EXCEPT !.exists = TRUE, !.content = << >>] ELSE m

\* fs.unlinkSync(file): the path is gone; open descriptors keep the old inode.
unlinkSync(m) ==
    IF ~Ok(m) THEN m
    ELSE [m EXCEPT !.exists = FALSE, !.content = << >>,
                   !.streams = [i \in StreamIds |-> [m.streams[i] EXCEPT !.attached = FALSE]]]

\* Writing `chunk` at offset `pos` of `content` (a gap reads as zero bytes).
WriteAt(content, pos, chunk) ==
    LET n == Len(content)
        before == IF pos <= n THEN SubSeq(content, 1, pos)
                  ELSE content \o [i \in 1 .. (pos - n) |-> "NUL"]
        after == IF pos + Len(chunk) < n THEN SubSeq(content, pos + Len(chunk) + 1, n)
                 ELSE << >>
    IN  before \o chunk \o after

\* --------------------------------------------------- src/classes/Log.js

\* constructor(options): Object.assign of the defaults and the argument.
Log_constructor(opts) ==
    Assign([ autoClose |-> "false", autoCreate |-> "false", autoOpen |-> "false",
             file |-> "logs/latest.log", formatter |-> "Log.defaultFormatter",
             formatterParameters |-> << >>, recursive |-> "true",
             truncate |-> "false" ], opts)

\* close()
Log_close(m) ==
    IF ~Ok(m) THEN m
    ELSE IF m.stream = 0 THEN Throw(m, "NotOpenError")
    ELSE LET m1 == emit(m, "beforeClose", << >>)
             m2 == streamDestroy(m1)
             m3 == emit(m2, "close", << >>)
             m4 == IF Ok(m3) THEN [m3 EXCEPT !.stream = 0] ELSE m3
         IN  Return(m4, "this")

\* A create(options) that opens the file with "w+" whether or not it exists.
Log_createAlways(m, opts) ==
    IF ~Ok(m) THEN m
    ELSE LET m1 == emit(m, "beforeCreate", << >>)
             m2 == IF ~m1.dir THEN mkdirSync(m1) ELSE m1
             m3 == openSync(m2)
             m4 == emit(m3, "create", << >>)
         IN  Return(m4, "this")

\* create(options)
Log_create(m, opts) ==
    IF ~Ok(m) THEN m
    ELSE LET parsedOptions == Assign(Assign([recursive |-> "true"], m.options), opts)
         IN  IF m.exists THEN Return(m, "this")
             ELSE LET m1 == emit(m, "beforeCreate", << >>)
                      m2 == IF ~m1.dir THEN mkdirSync(m1) ELSE m1
                      m3 == openSync(m2)
                      m4 == emit(m3, "create", << >>)
                  IN  Return(m4, "this")

\* A delete(options) that unlinks the file without looking at the stream.
Log_deleteUnguarded(m, opts) ==
    IF ~Ok(m) THEN m
    ELSE IF ~m.exists THEN Throw(m, "MissingFileError")
         ELSE LET m2 == emit(m, "beforeDelete", << >>)
                  m3 == unlinkSync(m2)
                  m4 == emit(m3, "delete", << >>)
              IN  Return(m4, "this")

\* delete(options)
Log_delete(m, opts) ==
    IF ~Ok(m) THEN m
    ELSE LET parsedOptions == Assign(Assign([autoClose |-> "false"], m.options), opts)
         IN  IF ~m.exists THEN Throw(m, "MissingFileError")
             ELSE LET m1 == IF m.stream # 0
                            THEN IF Truthy(parsedOptions, "autoClose")
                                 THEN [Log_close(m) EXCEPT !.ret = "pending"]
                                 ELSE Throw(m, "StreamOpenError")
                            ELSE m
                      m2 == emit(m1, "beforeDelete", << >>)
                      m3 == unlinkSync(m2)
                      m4 == emit(m3, "delete", << >>)
                  IN  Return(m4, "this")

\* open(options)
Log_open(m, opts) ==
    IF ~Ok(m) THEN m
    ELSE LET parsedOptions ==
                 Assign(Assign([autoCreate |-> "false", truncate |-> "true"], m.options), opts)
             m1 == IF ~m.exists
                   THEN IF Truthy(parsedOptions, "autoCreate")
                        THEN [Log_create(m, parsedOptions) EXCEPT !.ret = "pending"]
                        ELSE Throw(m, "MissingFileError")
                   ELSE m
         IN  IF ~Ok(m1) THEN m1
             ELSE IF m1.stream # 0 THEN Return(m1, "this")
             ELSE LET m2 == emit(m1, "beforeOpen", << >>)
                      content == IF Truthy(parsedOptions, "truncate") THEN << >> ELSE m2.content
                      m3 == createWriteStream(m2)
                      m4 == streamWrite(m3, content)
                      m5 == emit(m4, "open", << >>)
                  IN  Return(m5, "this")

\* Object.assign(array, values): the leading elements are overwritten in place.
ArrayAssign(a, b) ==
    [i \in 1 .. (IF Len(a) > Len(b) THEN Len(a) ELSE Len(b)) |->
        IF i <= Len(b) THEN b[i] ELSE a[i]]

\* write(options, ...formatterParameters)
Log_write(m, opts, formatterParameters) ==
    IF ~Ok(m) THEN m
    ELSE LET merged ==
                 Assign(Assign([ autoCreate |-> "false", autoOpen |-> "false",
                                 formatter |-> "Log.defaultFormatter",
                                 formatterParameter |-> << >>, recursive |-> "true",
                                 truncate |-> "true" ], m.options), opts)
             params == ArrayAssign(merged.formatterParameters, formatterParameters)
             parsedOptions == [merged EXCEPT !.formatterParameters = params]
             \* the array assigned to is the instance's own unless the call names one
             m0 == IF Has(opts, "formatterParameters") THEN m
                   ELSE [m EXCEPT !.options.formatterParameters = params]
             m1 == IF ~m0.exists
                   THEN IF Truthy(m0.options, "autoCreate")
                        THEN [Log_create(m0, parsedOptions) EXCEPT !.ret = "pending"]
                        ELSE Throw(m0, "MissingFileError")
                   ELSE m0
             m2 == IF Ok(m1) /\ m1.stream = 0
                   THEN IF Truthy(m1.options, "autoOpen")
                        THEN [Log_open(m1, parsedOptions) EXCEPT !.ret = "pending"]
                        ELSE Throw(m1, "NotOpenError")
                   ELSE m1
             m3 == emit(m2, "beforeWrite", << >>)
             entry == CallFormatter(parsedOptions.formatter, parsedOptions.formatterParameters)
             m4 == streamWrite(m3, entry)
             m5 == emit(m4, "write", entry)
         IN  Return(m5, "this")

\* --------------------------------------------------- src/unnamed/part_000

\* value instanceof target, for the two targets the options setter uses.
InstanceOf(v, target) ==
    CASE target = "Boolean" -> v \in {"Boolean(true)", "Boolean(false)"}
      [] target = "Function" ->
            v \in {"Log2.defaultFormatter", "Log2.defaultLogger", "hello", "customLogger"}
      [] OTHER -> FALSE

Log2_defaultOptions ==
    << [key |-> "automaticClose", target |-> "Boolean", value |-> "true"],
       [key |-> "automaticCreate", target |-> "Boolean", value |-> "true"],
       [key |-> "automaticOpen", target |-> "Boolean", value |-> "true"],
       [key |-> "formatter", target |-> "Function", value |-> "Log2.defaultFormatter"],
       [key |-> "logger", target |-> "Function", value |-> "Log2.defaultLogger"],
       [key |-> "recursive", target |-> "Boolean", value |-> "true"] >>

\* set options(options), for an object argument: the stored record.
Log2_parseOptions(opts) ==
    [ k \in { Log2_defaultOptions[i].key : i \in DOMAIN Log2_defaultOptions } |->
        LET d == CHOOSE e \in { Log2_defaultOptions[i] : i \in DOMAIN Log2_defaultOptions } :
                     e.key = k
        IN  IF Has(opts, k) /\ InstanceOf(opts[k], d.target) THEN opts[k] ELSE d.value ]

\* set options(options); `isObject` is (options && typeof options === "object")
Log2_setOptions(m, isObject, opts) ==
    IF ~Ok(m) THEN m
    ELSE IF ~isObject THEN Throw(m, "InvalidOptionError")
    ELSE LET parsedOptions == Log2_parseOptions(opts)
         IN  [m EXCEPT !.options = parsedOptions,
                       !.formatter = parsedOptions.formatter,
                       !.logger = parsedOptions.logger]

\* set format(formatter); `isFunction` is (typeof formatter === "function").
\* A function and the function bound to the instance go by the same name.
Log2_setFormat(m, isFunction, fn) ==
    IF ~Ok(m) THEN m
    ELSE IF ~isFunction THEN Throw(m, "TypeError")
    ELSE [m EXCEPT !.formatter = fn, !.options.formatter = fn]

\* set log(logger); `isFunction` is (typeof logger === "function")
Log2_setLog(m, isFunction, fn) ==
    IF ~Ok(m) THEN m
    ELSE IF ~isFunction THEN Throw(m, "TypeError")
    ELSE [m EXCEPT !.logger = fn, !.options.formatter = fn]

\* get online()
Log2_online(m) == m.stream # 0 /\ ~m.streams[m.stream].destroyed

\* create(options)
Log2_create(m, opts) ==
    IF ~Ok(m) THEN m
    ELSE LET override == Assign(m.options, opts)
         IN  IF m.exists THEN Return(m, "this")
             ELSE LET m1 == IF ~m.dir THEN mkdirSync(m) ELSE m
                      m2 == openSync(m1)
                      m3 == emit(m2, "create", << >>)
                  IN  Return(m3, "this")

\* close(options)
Log2_close(m, opts) ==
    IF ~Ok(m) THEN m
    ELSE LET override == Assign(m.options, opts)
             m1 == IF Truthy(override, "automaticCreate")
                   THEN [Log2_create(m, override) EXCEPT !.ret = "pending"]
                   ELSE m
         IN  IF ~Ok(m1) THEN m1
             ELSE IF ~Log2_online(m1) THEN Return(m1, "this")
             ELSE LET m2 == [m1 EXCEPT !.streams[m1.stream].onClose = TRUE]
                      m3 == emit(m2, "beforeClose", << >>)
                      m4 == streamDestroy(m3)
                  IN  Return(m4, "undefined")

\* delete(options)
Log2_delete(m, opts) ==
    IF ~Ok(m) THEN m
    ELSE LET override == Assign(m.options, opts)
         IN  IF ~m.exists THEN Return(m, "this")
             ELSE LET m1 == IF Log2_online(m)
                            THEN IF Truthy(override, "automaticClose")
                                 THEN [Log2_close(m, override) EXCEPT !.ret = "pending"]
                                 ELSE Throw(m, "StreamOpenError")
                            ELSE m
                      m2 == unlinkSync(m1)
                      m3 == emit(m2, "delete", << >>)
                  IN  Return(m3, "this")

\* open(options)
Log2_open(m, opts) ==
    IF ~Ok(m) THEN m
    ELSE LET override == Assign(m.options, opts)
             m1 == IF ~m.exists
                   THEN IF Truthy(opts, "automaticCreate")
                        THEN [Log2_create(m, override) EXCEPT !.ret = "pending"]
                        ELSE Throw(m, "MissingFileError")
                   ELSE m
         IN  IF ~Ok(m1) THEN m1
             ELSE IF Log2_online(m1) THEN Return(m1, "this")
             ELSE LET m2 == emit(m1, "beforeOpen", << >>)
                      m3 == createWriteStream(m2)
                      m4 == IF Ok(m3) THEN [m3 EXCEPT !.streams[m3.stream].onReady = TRUE]
                            ELSE m3
                  IN  Return(m4, "this")

Log2_RawStyling ==
    [ dateTimeStyling |-> List(<< >>), messageStyling |-> List(<< >>),
      separatorStyling |-> List(<< >>), titleStyling |-> List(<< >>) ]

\* static defaultLogger(formatOptions, logOptions), bound to the instance
Log2_defaultLogger(m, formatOptions, logOptions) ==
    IF ~Ok(m) THEN m
    ELSE LET logOverride ==
                 Assign([ automaticCreate |-> "true", automaticOpen |-> "true",
                          print |-> "true", printRaw |-> "false", recursive |-> "true",
                          write |-> "true", writeRaw |-> "true" ], logOptions)
             m1 == IF ~Log2_online(m)
                   THEN IF Truthy(logOverride, "automaticOpen")
                        THEN [Log2_open(m, logOverride) EXCEPT !.ret = "pending"]
                        ELSE Throw(m, "NotOpenError")
                   ELSE m
             raw == Assign(formatOptions, Log2_RawStyling)
             m2 == emit(m1, "log", << >>)
             m3 == IF Ok(m2) /\ Truthy(logOverride, "print")
                   THEN LET p == emit(m2, "logPrint", << >>)
                        IN  IF Ok(p)
                            THEN [p EXCEPT !.printed =
                                    Append(@, CallFormatter(m.formatter,
                                        << IF Truthy(logOverride, "printRaw")
                                           THEN raw ELSE formatOptions >>))]
                            ELSE p
                   ELSE m2
             m4 == IF Ok(m3) /\ Truthy(logOverride, "write")
                   THEN LET w == emit(m3, "logWrite", << >>)
                        IN  streamWrite(w, CallFormatter(m.formatter,
                                << IF Truthy(logOverride, "writeRaw")
                                   THEN raw ELSE formatOptions >>))
                   ELSE m3
         IN  Return(m4, "undefined")

\* ------------------------------------------------------------ the inputs

\* Every object giving some of `keys` a boolean.
Overrides(keys) == UNION { [K -> {"true", "false"}] : K \in SUBSET keys }

\* Formatter options used in calls.
FormatHi == [ message |-> << "h", "i" >> ]
FormatRight ==
    [ title |-> << "A", "B" >>, titleAlignment |-> "RIGHT", titleMinimumWidth |-> 10,
      titlePadding |-> << "-" >>, dateTime |-> 3, dateTimeMinimumWidth |-> 0,
      end |-> << ";", "NL" >> ]

\* The ...formatterParameters of a write() call.
FormatArgs == { << >>, << FormatRight >> }

\* The notifications a throwing subscriber may be registered for.
Vetoes == { "none", "beforeCreate", "beforeOpen", "beforeClose", "beforeDelete",
            "beforeWrite" }

\* Options objects given to new Log(file, options) of part_000.
Log2_CtorOptions ==
    { << >>,
      [ automaticClose |-> "false", automaticCreate |-> "false", automaticOpen |-> "false" ],
      [ automaticCreate |-> "Boolean(false)" ] }

\* ------------------------------------------------------------- the state

NoCall ==
    [ op |-> "new", err |-> "none", events |-> << >>, async |-> << >> ]

\* The formatter has not been called directly.
NoRender == [ op |-> "none", options |-> << >>, text |-> << >> ]

Init ==
    /\ variant \in { "classes", "part000" }
    /\ fileExists \in BOOLEAN
    /\ dirExists = fileExists
    /\ fileContent = (IF fileExists THEN << "o", "l", "d" >> ELSE << >>)
    /\ stream = 0
    /\ streams = [ i \in StreamIds |-> NoStream ]
    /\ IF variant = "classes"
       THEN /\ \E o \in [ { "autoClose", "autoCreate", "autoOpen", "truncate" } ->
                             { "true", "false" } ] : options = Log_constructor(o)
            /\ formatter = "none"
            /\ logger = "none"
       ELSE \E o \in Log2_CtorOptions :
                /\ options = Log2_parseOptions(o)
                /\ formatter = options.formatter
                /\ logger = options.logger
    /\ subscriber = "none"
    /\ calls = 0
    /\ last = NoCall
    /\ atReturn = TRUE
    /\ rendered = NoRender

\* The instance and its file system, as a call finds them.
Cur ==
    [ exists |-> fileExists, dir |-> dirExists, content |-> fileContent,
      options |-> options, formatter |-> formatter, logger |-> logger,
      stream |-> stream, streams |-> streams,
      events |-> << >>, err |-> "none", ret |-> "pending", veto |-> subscriber,
      printed |-> << >> ]

Names(events) == [ i \in DOMAIN events |-> events[i].name ]

\* The call `op` ran from Cur to `r`: returned or threw.
Commit(op, r) ==
    /\ calls < MaxCalls
    /\ r.err # "OutOfStreams"
    /\ fileExists' = r.exists
    /\ dirExists' = r.dir
    /\ fileContent' = r.content
    /\ options' = r.options
    /\ formatter' = r.formatter
    /\ logger' = r.logger
    /\ stream' = r.stream
    /\ streams' = r.streams
    /\ calls' = calls + 1
    /\ last' = [ op |-> op, err |-> r.err, events |-> Names(r.events),
                 async |-> << >> ]
    /\ atReturn' = TRUE
    /\ UNCHANGED << variant, subscriber, rendered >>

\* ---------------------------------------------- calls on classes/Log.js

Classes_create ==
    /\ variant = "classes"
    /\ Commit("create", Log_create(Cur, << >>))

Classes_open ==
    /\ variant = "classes"
    /\ \E o \in Overrides({ "autoCreate", "truncate" }) :
           Commit("open", Log_open(Cur, o))

Classes_close ==
    /\ variant = "classes"
    /\ Commit("close", Log_close(Cur))

Classes_delete ==
    /\ variant = "classes"
    /\ \E o \in Overrides({ "autoClose" }) :
           Commit("delete", Log_delete(Cur, o))

Classes_write ==
    /\ variant = "classes"
    /\ \E o \in Overrides({ "autoCreate", "autoOpen" }), fp \in FormatArgs :
           Commit("write", Log_write(Cur, o, fp))

\* ------------------------------------------------- calls on part_000

Part_create ==
    /\ variant = "part000"
    /\ Commit("create", Log2_create(Cur, << >>))

Part_open ==
    /\ variant = "part000"
    /\ \E o \in Overrides({ "automaticCreate" }) :
           Commit("open", Log2_open(Cur, o))

Part_close ==
    /\ variant = "part000"
    /\ \E o \in Overrides({ "automaticCreate" }) :
           Commit("close", Log2_close(Cur, o))

Part_delete ==
    /\ variant = "part000"
    /\ \E o \in Overrides({ "automaticClose" }) :
           Commit("delete", Log2_delete(Cur, o))

\* log(formatOptions, logOptions) with the default logger installed
Part_log ==
    /\ variant = "part000"
    /\ logger = "Log2.defaultLogger"
    /\ \E lo \in Overrides({ "automaticCreate", "automaticOpen", "write" }),
          fp \in FormatArgs :
           Commit("log", Log2_defaultLogger(Cur, FirstObject(fp), lo))

\* ------------------------------------------- what node completes later

\* fs.open(path, "w") of stream s completes: the file exists and is empty, and
\* 'ready' is emitted (part_000 forwards it as "open").
WriteStream_open(s) ==
    /\ streams[s].phase = "opening"
    /\ streams' = [streams EXCEPT ![s].phase = "open", ![s].attached = TRUE, ![s].pos = 0]
    /\ fileExists' = TRUE
    /\ fileContent' = << >>
    /\ last' = [last EXCEPT !.async =
                    IF streams[s].onReady THEN << "open" >>
                    ELSE << >>]
    /\ atReturn' = FALSE
    /\ UNCHANGED << variant, subscriber, dirExists, options, stream, formatter, logger, calls,
                    rendered >>

\* The oldest queued write of stream s reaches the file.
WriteStream_flush(s) ==
    /\ streams[s].phase = "open"
    /\ ~streams[s].destroyed
    /\ streams[s].buf # << >>
    /\ LET chunk == Head(streams[s].buf)
       IN  /\ streams' = [streams EXCEPT ![s].buf = Tail(@), ![s].pos = @ + Len(chunk)]
           /\ fileContent' = IF streams[s].attached
                             THEN WriteAt(fileContent, streams[s].pos, chunk)
                             ELSE fileContent
    /\ last' = [last EXCEPT !.async = << >>]
    /\ atReturn' = FALSE
    /\ UNCHANGED << variant, subscriber, fileExists, dirExists, options, stream, formatter, logger,
                    calls, rendered >>

\* The descriptor of destroyed stream s is closed and 'close' emitted; the
\* listener part_000's close() registered emits "close" and clears #stream.
WriteStream_close(s) ==
    /\ streams[s].phase = "open"
    /\ streams[s].destroyed
    /\ streams' = [streams EXCEPT ![s].phase = "closed", ![s].attached = FALSE,
                                  ![s].pos = 0, ![s].onClose = FALSE]
    /\ stream' = IF streams[s].onClose THEN 0 ELSE stream
    /\ last' = [last EXCEPT !.async =
                    IF streams[s].onClose THEN << "close" >>
                    ELSE << >>]
    /\ atReturn' = FALSE
    /\ UNCHANGED << variant, subscriber, fileExists, dirExists, fileContent, options, formatter,
                    logger, calls, rendered >>

Next ==
    \/ Classes_create
    \/ Classes_open
    \/ Classes_close
    \/ Classes_delete
    \/ Classes_write
    \/ Part_create
    \/ Part_open
    \/ Part_close
    \/ Part_delete
    \/ Part_log
    \/ \E s \in StreamIds : WriteStream_open(s)
    \/ \E s \in StreamIds : WriteStream_flush(s)
    \/ \E s \in StreamIds : WriteStream_close(s)

Spec == Init /\ [][Next]_vars

\* The same instance with a subscriber that throws registered for one of the
\* 'before' notifications: on(name, () => { throw ... }).
InitVeto ==
    /\ variant \in { "classes", "part000" }
    /\ fileExists \in BOOLEAN
    /\ dirExists = fileExists
    /\ fileContent = (IF fileExists THEN << "o", "l", "d" >> ELSE << >>)
    /\ stream = 0
    /\ streams = [ i \in StreamIds |-> NoStream ]
    /\ IF variant = "classes"
       THEN /\ \E b \in { "true", "false" } :
                   options = Log_constructor([ autoClose |-> b, autoCreate |-> b,
                                               autoOpen |-> b ])
            /\ formatter = "none"
            /\ logger = "none"
       ELSE /\ options = Log2_parseOptions(<< >>)
            /\ formatter = options.formatter
            /\ logger = options.logger
    /\ subscriber \in Vetoes \ { "none" }
    /\ calls = 0
    /\ last = NoCall
    /\ atReturn = TRUE
    /\ rendered = NoRender

SpecVeto == InitVeto /\ [][Next]_vars

\* ------------------------------------------------ assigning the options

\* Objects assigned to log.options: flags as primitive booleans, a flag as a
\* Boolean object, a string where a flag is expected, another formatter, and
\* a logger that is no function.
OptionInputs ==
    { << >>,
      [ automaticClose |-> "false", automaticOpen |-> "true" ],
      [ automaticCreate |-> "Boolean(false)" ],
      [ automaticOpen |-> "yes", formatter |-> "hello" ],
      [ logger |-> "true" ] }

\* log.options = o, for an object o
Part_setOptions ==
    /\ variant = "part000"
    /\ \E o \in OptionInputs : Commit("options", Log2_setOptions(Cur, TRUE, o))

\* log.options = v, for a v that is no object (null, a number, a string)
Part_setOptionsInvalid ==
    /\ variant = "part000"
    /\ Commit("options", Log2_setOptions(Cur, FALSE, << >>))

InitOptions ==
    /\ Init
    /\ variant = "part000"

NextOptions ==
    \/ Part_setOptions
    \/ Part_setOptionsInvalid
    \/ Part_create
    \/ Part_open
    \/ Part_close
    \/ Part_delete
    \/ Part_log
    \/ \E s \in StreamIds : WriteStream_open(s)
    \/ \E s \in StreamIds : WriteStream_flush(s)
    \/ \E s \in StreamIds : WriteStream_close(s)

SpecOptions == InitOptions /\ [][NextOptions]_vars

\* --------------------------------- assigning the formatter and the logger

\* The functions assigned to log.format: () => "hello\n" and the default.
FormatterInputs == { "hello", "Log2.defaultFormatter" }

\* The functions assigned to log.log: a logger of the caller and the default.
LoggerInputs == { "customLogger", "Log2.defaultLogger" }

\* log.format = fn
Part_setFormat ==
    /\ variant = "part000"
    /\ \E fn \in FormatterInputs : Commit("setFormat", Log2_setFormat(Cur, TRUE, fn))

\* log.format = v, for a v that is no function
Part_setFormatInvalid ==
    /\ variant = "part000"
    /\ Commit("setFormat", Log2_setFormat(Cur, FALSE, "none"))

\* log.log = fn
Part_setLog ==
    /\ variant = "part000"
    /\ \E fn \in LoggerInputs : Commit("setLog", Log2_setLog(Cur, TRUE, fn))

\* log.log = v, for a v that is no function
Part_setLogInvalid ==
    /\ variant = "part000"
    /\ Commit("setLog", Log2_setLog(Cur, FALSE, "none"))

InitSetters ==
    /\ Init
    /\ variant = "part000"
    /\ options = Log2_parseOptions(<< >>)

NextSetters ==
    \/ Part_setFormat
    \/ Part_setFormatInvalid
    \/ Part_setLog
    \/ Part_setLogInvalid
    \/ Part_create
    \/ Part_open
    \/ Part_close
    \/ Part_delete
    \/ Part_log
    \/ \E s \in StreamIds : WriteStream_open(s)
    \/ \E s \in StreamIds : WriteStream_flush(s)
    \/ \E s \in StreamIds : WriteStream_close(s)

SpecSetters == InitSetters /\ [][NextSetters]_vars

\* ------------------------------------------------- calling the formatter

\* Style-code lists: none, the one code 0, and a code followed by a sub-list.
Stylings ==
    { List(<< >>), List(<< Code(0) >>), List(<< Code(1), Codes(<< 38, 5, 125 >>) >>) }

\* Formatter options that vary the text, minimum width, pad character and
\* alignment of the two padded fields, in raw mode and with no style codes.
PadInputs ==
    { [ raw |-> "true",
        dateTimeStyling |-> List(<< >>), titleStyling |-> List(<< >>),
        messageStyling |-> List(<< >>), separatorStyling |-> List(<< >>),
        message |-> << "h", "i" >>,
        title |-> t, titleMinimumWidth |-> tw, titlePadding |-> << tp >>,
        titleAlignment |-> ta,
        dateTime |-> d, dateTimeMinimumWidth |-> dw, dateTimePadding |-> << "#" >>,
        dateTimeAlignment |-> da ] :
        t \in { << >>, << "A", "B" >>, << "A", "B", "C", "D" >> },
        tw \in { 0, 3, 10 }, tp \in { "-", "*" }, ta \in { "LEFT", "RIGHT" },
        d \in { 3, 12 }, dw \in { 0, 4 }, da \in { "LEFT", "RIGHT" } }

\* Formatter options that vary the style codes of the four fields and the
\* raw flag.
StyleInputs ==
    { [ raw |-> r, dateTimeStyling |-> ds, titleStyling |-> ts, messageStyling |-> ms,
        separatorStyling |-> ss, message |-> << "h", "i" >>,
        title |-> << "A", "B" >>, titleMinimumWidth |-> 3, dateTime |-> 3,
        dateTimeMinimumWidth |-> 0 ] :
        r \in { "true", "false" },
        ds \in Stylings, ts \in Stylings, ms \in Stylings, ss \in Stylings }

\* The alignment values passed: RIGHT and LEFT in several letter cases.
Alignments == { "RIGHT", "Right", "right", "LEFT", "left" }

\* Formatter options that vary the letter case of the two alignments, in raw
\* mode and with no style codes.
CaseInputs ==
    { [ raw |-> "true",
        dateTimeStyling |-> List(<< >>), titleStyling |-> List(<< >>),
        messageStyling |-> List(<< >>), separatorStyling |-> List(<< >>),
        message |-> << "h", "i" >>,
        title |-> << "A", "B" >>, titleMinimumWidth |-> 4, titlePadding |-> << "-" >>,
        titleAlignment |-> ta,
        dateTime |-> 3, dateTimeMinimumWidth |-> 4, dateTimePadding |-> << "#" >>,
        dateTimeAlignment |-> da ] :
        ta \in Alignments, da \in Alignments }

FormatInputs == PadInputs \cup StyleInputs \cup CaseInputs

\* Log.defaultFormatter(fo), the static function of classes/Log.js
Classes_format ==
    /\ variant = "classes"
    /\ \E fo \in FormatInputs :
           rendered' = [ op |-> "format", options |-> fo,
                         text |-> CallFormatter(options.formatter, << fo >>) ]
    /\ UNCHANGED << variant, fileExists, dirExists, fileContent, options, stream, streams,
                    formatter, logger, subscriber, calls, last, atReturn >>

\* log.format(fo), the formatter of part_000 bound to the instance
Part_format ==
    /\ variant = "part000"
    /\ \E fo \in FormatInputs :
           rendered' = [ op |-> "format", options |-> fo,
                         text |-> CallFormatter(formatter, << fo >>) ]
    /\ UNCHANGED << variant, fileExists, dirExists, fileContent, options, stream, streams,
                    formatter, logger, subscriber, calls, last, atReturn >>

InitFormat ==
    /\ Init
    /\ ~fileExists
    /\ variant = "classes" => options = Log_constructor(<< >>)
    /\ variant = "part000" => options = Log2_parseOptions(<< >>)

NextFormat ==
    \/ Classes_format
    \/ Part_format

SpecFormat == InitFormat /\ [][NextFormat]_vars

\* ------------------------------------------------------------- the claims

\* get online(): the instance holds a stream that is not destroyed.
Online == stream # 0 /\ ~streams[stream].destroyed

\* The write streams that are neither destroyed nor closed.
LiveStreams == { i \in StreamIds : streams[i].phase \in { "opening", "open" }
                                    /\ ~streams[i].destroyed }

\* This step is a call of one of `ops` on the instance.
IsCall(ops) == calls' = calls + 1 /\ last'.op \in ops

\* C1: after open() then close() the instance is offline; an open() that
\* succeeds leaves it online; and once online it stays online, whatever node
\* completes in between, until close() or delete() is called.
C1_RoundTrip ==
    [][ /\ (IsCall({ "close" }) /\ last'.err = "none") => ~Online'
        /\ (IsCall({ "open" }) /\ last'.err = "none") => Online'
        /\ (Online /\ ~IsCall({ "close", "delete" })) => Online' ]_vars

\* C2: at most one write stream of the instance is not destroyed, and open()
\* on an instance whose stream is open creates no stream and keeps the
\* reference.
C2_OneStream ==
    /\ Cardinality(LiveStreams) <= 1
    /\ Online =>
         /\ variant = "classes" =>
                \A o \in Overrides({ "autoCreate", "truncate" }) :
                    LET r == Log_open(Cur, o)
                    IN  r.stream = stream /\ r.streams = streams
         /\ variant = "part000" =>
                \A o \in Overrides({ "automaticCreate" }) :
                    LET r == Log2_open(Cur, o)
                    IN  r.stream = stream /\ r.streams = streams

\* What every subscriber of the calls possible now would see.
EventsOfCalls ==
    IF variant = "classes"
    THEN { Log_close(Cur).events, Log_create(Cur, << >>).events }
         \cup { Log_open(Cur, o).events : o \in Overrides({ "autoCreate", "truncate" }) }
         \cup { Log_delete(Cur, o).events : o \in Overrides({ "autoClose" }) }
         \cup { Log_write(Cur, o, << >>).events : o \in Overrides({ "autoCreate", "autoOpen" }) }
    ELSE { Log2_create(Cur, << >>).events }
         \cup { Log2_open(Cur, o).events : o \in Overrides({ "automaticCreate" }) }
         \cup { Log2_close(Cur, o).events : o \in Overrides({ "automaticCreate" }) }
         \cup { Log2_delete(Cur, o).events : o \in Overrides({ "automaticClose" }) }

\* C3: between calls and while a subscriber runs, stream is non-null exactly
\* when a write handle of the instance is open (not destroyed).
C3_StreamIffOpen ==
    /\ stream # 0 => ~streams[stream].destroyed
    /\ stream = 0 => LiveStreams = {}
    /\ \A es \in EventsOfCalls : \A i \in DOMAIN es : (es[i].stream # 0) <=> es[i].live

\* The outcome of delete(o) satisfies C4, given whether the stream was open
\* and the merged auto-close policy `auto`.
DeleteContract(auto, r) ==
    IF ~auto
    THEN /\ r.err = "StreamOpenError"
         /\ r.exists = fileExists /\ r.exists
         /\ r.content = fileContent
         /\ r.stream = stream /\ r.streams = streams
         /\ Live(r)
    ELSE /\ r.err = "none"
         /\ ~r.exists
         /\ ~Live(r)

\* C4: delete() on an open stream throws StreamOpenError and changes nothing
\* when the merged auto-close policy is off; when it is on, it closes the
\* stream and removes the file, so that on return the file is gone and the
\* instance is offline.
C4_DeleteOpenStream ==
    Online =>
        /\ variant = "classes" =>
               \A o \in Overrides({ "autoClose" }) :
                   DeleteContract(Truthy(Assign(options, o), "autoClose"),
                                  Log_delete(Cur, o))
        /\ variant = "part000" =>
               \A o \in Overrides({ "automaticClose" }) :
                   DeleteContract(Truthy(Assign(options, o), "automaticClose"),
                                  Log2_delete(Cur, o))

\* C4 witness: a delete() has just thrown StreamOpenError and the stream is
\* still open.
C4_Witness ==
    atReturn /\ last.op = "delete" /\ last.err = "StreamOpenError" /\ Online /\ fileExists

\* The errors of the taxonomy.
TaxonomyErrors == { "MissingFileError", "StreamOpenError", "NotOpenError" }

\* C5: an open, close, delete or write that fails with an error leaves file
\* existence, file content and the stream as they were; in particular a
\* write() failing with NotOpenError has created no file and opened no stream.
C5_FailureChangesNothing ==
    [][ (IsCall({ "open", "close", "delete", "write", "log" })
            /\ last'.err \in TaxonomyErrors) =>
        /\ fileExists' = fileExists
        /\ fileContent' = fileContent
        /\ stream' = stream
        /\ streams' = streams ]_vars

\* The outcome of open(o) on an absent file under the merged auto-create
\* policy `auto`.
OpenContract(auto, r) ==
    /\ (r.err = "MissingFileError") <=> ~auto
    /\ auto => (r.err = "none" /\ r.exists /\ Live(r))

\* C6: open() on an absent file throws MissingFileError exactly when the
\* merged auto-create policy is off; when it is on, the file exists and the
\* instance is online on return.
C6_OpenAbsentFile ==
    ~fileExists =>
        /\ variant = "classes" =>
               \A o \in Overrides({ "autoCreate", "truncate" }) :
                   OpenContract(Truthy(Assign(options, o), "autoCreate"), Log_open(Cur, o))
        /\ variant = "part000" =>
               \A o \in Overrides({ "automaticCreate" }) :
                   OpenContract(Truthy(Assign(options, o), "automaticCreate"),
                                Log2_open(Cur, o))

\* C7: write() follows the merged policy, the call's override winning: on an
\* absent file it throws MissingFileError iff the merged autoCreate is off,
\* and on a closed stream (the file there or created) NotOpenError iff the
\* merged autoOpen is off.
C7_WritePolicy ==
    variant = "classes" =>
        \A o \in Overrides({ "autoCreate", "autoOpen" }), fp \in FormatArgs :
            LET merged == Assign(options, o)
                autoCreate == Truthy(merged, "autoCreate")
                autoOpen == Truthy(merged, "autoOpen")
                r == Log_write(Cur, o, fp)
            IN  /\ ~fileExists => ((r.err = "MissingFileError") <=> ~autoCreate)
                /\ (stream = 0 /\ (fileExists \/ autoCreate)) =>
                       ((r.err = "NotOpenError") <=> ~autoOpen)
                /\ ((fileExists \/ autoCreate) /\ (stream # 0 \/ autoOpen)) =>
                       r.err = "none"

\* String.prototype.endsWith
EndsWith(s, t) == Len(s) >= Len(t) /\ SubSeq(s, Len(s) - Len(t) + 1, Len(s)) = t

\* The outcome of one write of an entry on an absent file satisfies Scenario A:
\* the file exists, the instance is online, and the stream was handed exactly
\* `entry`, which ends in `end`.
ScenarioA(r, entry, end) ==
    /\ r.err = "none"
    /\ r.exists
    /\ Live(r)
    /\ Concat(r.streams[r.stream].log) = entry
    /\ EndsWith(entry, end)
    /\ Len(entry) > Len(end)

\* The last call handed an entry to the stream (log() does so unless called
\* with write disabled).
WroteEntry ==
    \E i \in 1..Len(last.events) : last.events[i] \in { "write", "logWrite" }

\* C8: with auto-create and auto-open enabled, one write()/log() of an entry
\* on an absent file leaves the file existing, the instance online and the
\* data delivered to the file exactly one formatted entry ending in the
\* terminator; once node has written it out, that is the file's content.
C8_ScenarioA ==
    /\ (~fileExists /\ ~Online /\ FreeIds(streams) # {}) =>
        /\ (variant = "classes" /\ formatter = "none"
                /\ Truthy(options, "autoCreate") /\ Truthy(options, "autoOpen")) =>
               \A o \in Overrides({ "autoCreate", "autoOpen" }), fp \in FormatArgs :
                   (Truthy(Assign(options, o), "autoCreate")
                        /\ Truthy(Assign(options, o), "autoOpen")) =>
                   LET r == Log_write(Cur, o, fp)
                       fo == FirstObject(ArrayAssign(options.formatterParameters, fp))
                   IN  /\ ScenarioA(r, Log_defaultFormatter(fo),
                                    Assign(Log_FormatDefaults, fo).end)
                       /\ r.events[Len(r.events)].name = "write"
                       /\ r.events[Len(r.events)].arg = Log_defaultFormatter(fo)
        /\ (variant = "part000" /\ formatter = "Log2.defaultFormatter") =>
               \A lo \in Overrides({ "automaticCreate", "automaticOpen", "write" }),
                  fp \in FormatArgs :
                   (\A k \in DOMAIN lo : lo[k] = "true") =>
                   LET r == Log2_defaultLogger(Cur, FirstObject(fp), lo)
                       fo == Assign(FirstObject(fp), Log2_RawStyling)
                   IN  ScenarioA(r, Log2_defaultFormatter(fo),
                                 Assign(Log2_FormatDefaults, fo).end)
    /\ (calls = 1 /\ last.op \in { "write", "log" } /\ last.err = "none"
            /\ WroteEntry
            /\ last.events # << >> /\ last.events[1] \in { "beforeCreate", "create" }
            /\ stream # 0 /\ streams[stream].phase = "open"
            /\ streams[stream].buf = << >>) =>
        /\ fileExists
        /\ Online
        /\ fileContent = Concat(streams[stream].log)
        /\ Len(fileContent) > 0

\* C8 witness: the first call was a write that created the file, and its one
\* entry has reached the file.
C8_Witness ==
    /\ calls = 1 /\ last.op \in { "write", "log" } /\ last.err = "none"
    /\ WroteEntry
    /\ last.events # << >> /\ last.events[1] \in { "beforeCreate", "create" }
    /\ Online /\ streams[stream].phase = "open" /\ streams[stream].buf = << >>
    /\ fileExists /\ Len(fileContent) > 0 /\ fileContent = Concat(streams[stream].log)

\* The content of the log file that exists when the instance is constructed.
Old == << "o", "l", "d" >>

\* C9: for an existing non-empty file, open({truncate: false}) followed by
\* close() leaves the content as it was before open(); with truncate enabled
\* the file is empty once opened.
C9_ScenarioB ==
    variant = "classes" =>
        /\ (calls = 2 /\ last.op = "close" /\ last.err = "none"
                /\ streams[1].log = << Old >>) => fileContent = Old
        /\ (calls = 1 /\ last.op = "open" /\ last.err = "none"
                /\ streams[1].log = << << >> >> /\ streams[1].phase = "open") =>
               fileContent = << >>

\* C10: the data written through the stream is the rendered entries in call
\* order: every successful write() hands the stream its entry once, after
\* what it was handed before, the 'write' notification carries that very
\* text, and nothing a stream was handed is lost.
C10_EntriesInOrder ==
    /\ \A s \in StreamIds : Concat(streams[s].dropped) = << >>
    /\ (variant = "classes" /\ stream # 0) =>
           \A o \in Overrides({ "autoCreate", "autoOpen" }), fp \in FormatArgs :
               LET r == Log_write(Cur, o, fp)
                   n == Len(r.events)
               IN  r.err = "none" =>
                       /\ r.stream = stream
                       /\ r.events[n].name = "write"
                       /\ r.streams[stream].log =
                              Append(streams[stream].log, r.events[n].arg)
                       /\ r.streams[stream].buf =
                              Append(streams[stream].buf, r.events[n].arg)

\* The notifications named `names` among those the call of this step emitted
\* before it returned, in order.
Emitted(names) == SelectSeq(last'.events, LAMBDA e : e \in names)

\* The call of this step emitted 'beforeX' then 'X', once each, if `acted`
\* (it performed the side effect of X), and neither otherwise.
Brackets(before, after, acted) ==
    Emitted({ before, after }) = IF acted THEN << before, after >> ELSE << >>

\* C11: a call that returns normally emits, for each of create, open, close,
\* delete and write whose side effect it performs, 'beforeX' and then 'X'
\* exactly once before it returns, and emits neither for an operation it did
\* not perform (create on an existing file, open on an open stream).
C11_BeforeAndAfter ==
    [][ (IsCall({ "create", "open", "close", "delete", "write" }) /\ last'.err = "none") =>
        /\ Brackets("beforeCreate", "create", ~fileExists /\ fileExists')
        /\ Brackets("beforeOpen", "open", stream' # 0 /\ stream' # stream)
        /\ Brackets("beforeClose", "close",
                    \E s \in StreamIds : ~streams[s].destroyed /\ streams'[s].destroyed)
        /\ Brackets("beforeDelete", "delete", fileExists /\ ~fileExists')
        /\ Brackets("beforeWrite", "write", last'.op = "write") ]_vars

\* C12: when the subscriber of a 'before' notification throws, the call is
\* aborted with nothing changed: file existence, file content and the stream
\* are as before the call.
C12_VetoChangesNothing ==
    [][ (calls' = calls + 1 /\ last'.err = "HandlerError") =>
        /\ last'.events[Len(last'.events)] = subscriber
        /\ fileExists' = fileExists
        /\ fileContent' = fileContent
        /\ stream' = stream
        /\ streams' = streams ]_vars

\* This step changed neither the file nor the stream.
NothingChanged ==
    /\ fileExists' = fileExists
    /\ fileContent' = fileContent
    /\ stream' = stream
    /\ streams' = streams

\* C13: delete() on an absent file fails with MissingFileError, emits no
\* notification and changes nothing.
C13_DeleteMissing ==
    [][ (IsCall({ "delete" }) /\ ~fileExists) =>
        /\ last'.err = "MissingFileError"
        /\ last'.events = << >>
        /\ NothingChanged ]_vars

\* C14: close() without an open handle either fails with NotOpenError or
\* returns (the no-op semantics), and both ways emits nothing and changes
\* neither the stream nor the file; close() on an open handle destroys it and
\* clears the reference.
C14_Close ==
    [][ IsCall({ "close" }) =>
        /\ ~Online =>
               /\ last'.err \in { "none", "NotOpenError" }
               /\ last'.events = << >>
               /\ NothingChanged
        /\ Online =>
               /\ last'.err = "none"
               /\ streams'[stream].destroyed
               /\ stream' = 0 ]_vars

\* The file, the stream and the options of a machine state.
Effects(r) == << r.exists, r.dir, r.content, r.stream, r.streams, r.options >>

\* create() called once more on the outcome `r` of a call.
Again(r) == [r EXCEPT !.events = << >>, !.ret = "pending"]

\* The outcome `r` of create() from the current state, and `r2` of a second
\* create() after it, satisfy C15.
CreateContract(r, r2) ==
    /\ r.err = "none"
    /\ r.exists
    /\ r.stream = stream /\ r.streams = streams
    /\ fileExists => (r.content = fileContent /\ r.events = << >>)
    /\ ~fileExists => r.content = << >>
    /\ Effects(r2) = Effects(r)
    /\ r2.err = "none" /\ r2.events = << >>

\* C15: create() on an existing file changes neither content nor stream and
\* emits nothing; on an absent file it leaves an empty file and opens no
\* stream; create() twice has the effect of create() once.
C15_CreateIdempotent ==
    \A o \in Overrides({ "recursive" }) :
        /\ variant = "classes" =>
               CreateContract(Log_create(Cur, o), Log_create(Again(Log_create(Cur, o)), o))
        /\ variant = "part000" =>
               CreateContract(Log2_create(Cur, o), Log2_create(Again(Log2_create(Cur, o)), o))

\* C15 witness: a second create() has just returned without a notification on
\* a file that exists and has content.
C15_Witness ==
    /\ atReturn /\ last.op = "create" /\ last.err = "none" /\ last.events = << >>
    /\ fileExists /\ Len(fileContent) > 0 /\ calls >= 2

\* What the calls possible now return when they return normally.
ReturnsOfCalls ==
    { r.ret : r \in { c \in
        (IF variant = "classes"
         THEN { Log_close(Cur), Log_create(Cur, << >>) }
              \cup { Log_open(Cur, o) : o \in Overrides({ "autoCreate", "truncate" }) }
              \cup { Log_delete(Cur, o) : o \in Overrides({ "autoClose" }) }
              \cup { Log_write(Cur, o, << >>) : o \in Overrides({ "autoCreate", "autoOpen" }) }
         ELSE { Log2_create(Cur, << >>) }
              \cup { Log2_open(Cur, o) : o \in Overrides({ "automaticCreate" }) }
              \cup { Log2_close(Cur, o) : o \in Overrides({ "automaticCreate" }) }
              \cup { Log2_delete(Cur, o) : o \in Overrides({ "automaticClose" }) }) :
        c.err = "none" } }

\* C16: every create, open, close, delete and write that succeeds returns the
\* instance itself, in every state.
C16_ReturnsThis == ReturnsOfCalls \subseteq { "this" }

\* v is a value of the type the option expects: a boolean for a flag, a
\* function for the formatter and the logger.
OfType(v, target) ==
    IF target = "Boolean" THEN v \in { "true", "false" }
    ELSE v \in { "Log2.defaultFormatter", "Log2.defaultLogger", "hello", "customLogger" }

\* The value C17 has the option of default `d` hold after o was assigned: o's
\* own when it is of the expected type, else the default.
Validated(o, d) ==
    IF Has(o, d.key) /\ OfType(o[d.key], d.target) THEN o[d.key] ELSE d.value

\* C17: assigning an options object stores, for each option, a supplied
\* value of the expected type as given (a flag given as false is stored as
\* false) and the default for a missing or wrongly typed one; assigning a
\* non-object is rejected and leaves the options as they were.
C17_OptionsValidated ==
    variant = "part000" =>
        /\ \A o \in OptionInputs :
               LET r == Log2_setOptions(Cur, TRUE, o)
               IN  /\ r.err = "none"
                   /\ \A i \in DOMAIN Log2_defaultOptions :
                          LET d == Log2_defaultOptions[i]
                          IN  (Has(o, d.key) => o[d.key] \notin { "Boolean(true)", "Boolean(false)" })
                                  => r.options[d.key] = Validated(o, d)
        /\ LET r == Log2_setOptions(Cur, FALSE, << >>)
           IN  r.err = "InvalidOptionError" /\ r.options = options

\* A field as C18 describes it: `text` with as many copies of the pad character
\* `ch` as it lacks to `width`, before it for RIGHT and after it otherwise.
ExpectedField(text, width, ch, alignment) ==
    LET n == IF width > Len(text) THEN width - Len(text) ELSE 0
        padding == [ i \in 1 .. n |-> ch ]
    IN  IF alignment = "RIGHT" THEN padding \o text ELSE text \o padding

\* The timestamp and title fields C18 expects for formatter options fo.
ExpectedDateTime(fo) ==
    ExpectedField(defaultDateTimeFormatter(fo.dateTime), fo.dateTimeMinimumWidth,
                  fo.dateTimePadding[1], fo.dateTimeAlignment)

ExpectedTitle(fo) ==
    ExpectedField(fo.title, fo.titleMinimumWidth, fo.titlePadding[1], fo.titleAlignment)

\* The title field of Scenario D.
ScenarioDTitle == << "-", "-", "-", "-", "-", "-", "-", "-", "A", "B" >>

\* The formatter was last called with the title options of Scenario D.
ScenarioD ==
    /\ rendered.op = "format"
    /\ rendered.options \in PadInputs
    /\ rendered.options.title = << "A", "B" >>
    /\ rendered.options.titleMinimumWidth = 10
    /\ rendered.options.titlePadding = << "-" >>
    /\ rendered.options.titleAlignment = "RIGHT"

\* C18: the timestamp and title fields the default formatter renders are the
\* text padded to the minimum width with the pad character, before the text
\* for RIGHT and after it for LEFT, and the text itself when it is at least
\* that long; title "AB", width 10, padding "-", RIGHT renders "--------AB".
C18_Padding ==
    (rendered.op = "format" /\ rendered.options \in PadInputs) =>
        LET fo == rendered.options
            dt == ExpectedDateTime(fo)
            title == ExpectedTitle(fo)
            sep == << " ", "|", " " >>
        IN  /\ rendered.text = dt \o sep \o title \o sep \o fo.message \o << "NL" >>
            /\ Len(title) = (IF Len(fo.title) > fo.titleMinimumWidth
                             THEN Len(fo.title) ELSE fo.titleMinimumWidth)
            /\ ScenarioD =>
                   SubSeq(rendered.text, Len(dt) + 4, Len(dt) + 13) = ScenarioDTitle

\* C18 witness: the formatter has rendered Scenario D with a timestamp padded
\* on the left, and the title field reads "--------AB".
C18_Witness ==
    /\ ScenarioD
    /\ rendered.options.dateTimeAlignment = "RIGHT"
    /\ rendered.options.dateTimeMinimumWidth = 4
    /\ rendered.options.dateTime = 3
    /\ SubSeq(rendered.text, 1, 17) = << "#", "#", "T", "3", " ", "|", " " >> \o ScenarioDTitle

\* The text has no escape character.
NoEscape(text) == \A i \in DOMAIN text : text[i] # ESC

\* The entry of StyleInputs without styling: timestamp 3, title "AB" padded
\* to 3, message "hi", the default separator and terminator.
PlainEntry ==
    << "T", "3", " ", "|", " ", "A", "B", " ", " ", "|", " ", "h", "i", "NL" >>

\* C19: raw output has no escape sequence whatever style codes are supplied:
\* it is timestamp, title and message joined by the separator, then the
\* terminator. So for the raw flag of the formatter of classes/Log.js, and for
\* what the logger of part_000 prints with printRaw and writes with writeRaw.
C19_RawHasNoEscapes ==
    (rendered.op = "format" /\ rendered.options \in StyleInputs) =>
        /\ (variant = "classes" /\ rendered.options.raw = "true") =>
               (rendered.text = PlainEntry /\ NoEscape(rendered.text))
        /\ variant = "part000" =>
               \A lo \in Overrides({ "printRaw", "writeRaw" }) :
                   LET r == Log2_defaultLogger(Cur, rendered.options, lo)
                   IN  /\ r.err = "none"
                       /\ Truthy(lo, "printRaw") =>
                              (r.printed = << PlainEntry >> /\ NoEscape(r.printed[1]))
                       /\ (Has(lo, "writeRaw") => Truthy(lo, "writeRaw")) =>
                              /\ r.streams[r.stream].log = << PlainEntry >>
                              /\ NoEscape(r.streams[r.stream].log[1])

\* C19 witness: the formatter was called in raw mode with style codes for all
\* four fields and rendered the plain entry.
C19_Witness ==
    /\ rendered.op = "format" /\ rendered.options \in StyleInputs
    /\ rendered.options.raw = "true"
    /\ rendered.options.dateTimeStyling = List(<< Code(1), Codes(<< 38, 5, 125 >>) >>)
    /\ rendered.options.titleStyling = List(<< Code(0) >>)
    /\ rendered.options.messageStyling = List(<< Code(0) >>)
    /\ rendered.options.separatorStyling = List(<< Code(0) >>)
    /\ variant = "classes"
    /\ rendered.text = PlainEntry

\* The style directives C20 expects for each of the style-code lists in use.
ExpectedOpen(styling) ==
    CASE styling = List(<< >>) -> << >>
      [] styling = List(<< Code(0) >>) -> << ESC, "[", "0", "m" >>
      [] styling = List(<< Code(1), Codes(<< 38, 5, 125 >>) >>) ->
             << ESC, "[", "1", "m", ESC, "[", "3", "8", ";", "5", ";", "1", "2", "5", "m" >>

\* A styled field as C20 describes it: the plain text for an empty list, else
\* the directives, the text and one reset.
ExpectedStyled(styling, text) ==
    IF styling = List(<< >>) THEN text
    ELSE ExpectedOpen(styling) \o text \o << ESC, "[", "0", "m" >>

\* The styled entry C20 expects for the options fo of StyleInputs.
ExpectedEntry(fo) ==
    LET sep == ExpectedStyled(fo.separatorStyling, << " ", "|", " " >>)
    IN  ExpectedStyled(fo.dateTimeStyling, << "T", "3" >>) \o sep
        \o ExpectedStyled(fo.titleStyling, << "A", "B", " " >>) \o sep
        \o ExpectedStyled(fo.messageStyling, << "h", "i" >>) \o << "NL" >>

\* C20: in styled mode a field with an empty style-code list is rendered as
\* its plain text with no escape, and a field with a non-empty list as one
\* directive per element, the text and one reset; the entry is timestamp,
\* title and message joined by the styled separator, then the terminator.
C20_Styled ==
    (rendered.op = "format" /\ rendered.options \in StyleInputs
        /\ rendered.options.raw = "false") =>
        rendered.text = ExpectedEntry(rendered.options)

\* The alignment is "RIGHT" in some letter case.
IsRight(alignment) == alignment \in { "RIGHT", "Right", "right" }

\* The field C21 expects: padded at the start for RIGHT in any letter case,
\* at the end for every other alignment.
ExpectedAligned(text, width, ch, alignment) ==
    ExpectedField(text, width, ch, IF IsRight(alignment) THEN "RIGHT" ELSE "LEFT")

\* C21: the formatter compares the alignment without regard to letter case:
\* "right" and "Right" pad the timestamp and the title at the start as
\* "RIGHT" does, and every other value pads at the end.
C21_AlignmentAnyCase ==
    (rendered.op = "format" /\ rendered.options \in CaseInputs) =>
        LET fo == rendered.options
            sep == << " ", "|", " " >>
        IN  rendered.text =
                ExpectedAligned(defaultDateTimeFormatter(fo.dateTime), fo.dateTimeMinimumWidth,
                                fo.dateTimePadding[1], fo.dateTimeAlignment)
                \o sep
                \o ExpectedAligned(fo.title, fo.titleMinimumWidth, fo.titlePadding[1],
                                   fo.titleAlignment)
                \o sep \o fo.message \o << "NL" >>

\* C22: write() renders its entry from the formatter arguments of that very
\* call, or from the defaults when it is given none, whatever earlier calls
\* were given, and leaves the options of the instance, formatterParameters
\* included, as they were.
C22_ArgsNotPersisted ==
    [][ /\ (IsCall({ "write" }) /\ last'.err = "none") => options' = options
        /\ variant = "classes" =>
               \A o \in Overrides({ "autoCreate", "autoOpen" }), fp \in FormatArgs :
                   LET r == Log_write(Cur, o, fp)
                   IN  r.err = "none" =>
                           r.events[Len(r.events)].arg = Log_defaultFormatter(FirstObject(fp))
      ]_vars

\* The policy flags of an options object.
PolicyFlags(o) == << o.automaticClose, o.automaticCreate, o.automaticOpen, o.recursive >>

\* C23: assigning log changes the logger and options.logger to the function
\* assigned and nothing else; assigning format changes the formatter and
\* options.formatter and nothing else; a value that is no function is
\* rejected and changes nothing.
C23_SettersChangeOnlyTheirs ==
    [][ /\ (IsCall({ "setLog" }) /\ last'.err = "none") =>
               /\ logger' \in LoggerInputs
               /\ options'.logger = logger'
               /\ formatter' = formatter
               /\ options'.formatter = options.formatter
               /\ PolicyFlags(options') = PolicyFlags(options)
        /\ (IsCall({ "setFormat" }) /\ last'.err = "none") =>
               /\ formatter' \in FormatterInputs
               /\ options'.formatter = formatter'
               /\ logger' = logger
               /\ options'.logger = options.logger
               /\ PolicyFlags(options') = PolicyFlags(options)
        /\ (IsCall({ "setLog", "setFormat" }) /\ last'.err # "none") =>
               /\ last'.err = "TypeError"
               /\ options' = options /\ formatter' = formatter /\ logger' = logger
      ]_vars

\* What log(fo, lo) prints and writes is what the formatter in force renders:
\* the custom formatter's text once it is assigned, the default formatter's
\* before.
LogRendersWithFormatter ==
    \A fp \in FormatArgs, lo \in Overrides({ "print", "write" }) :
        LET fo == FirstObject(fp)
            r == Log2_defaultLogger(Cur, fo, lo)
            custom == formatter = "hello"
            written == r.streams[r.stream].log
        IN  r.err = "none" =>
                /\ (Has(lo, "print") => Truthy(lo, "print")) =>
                       r.printed = << IF custom THEN Hello ELSE Log2_defaultFormatter(fo) >>
                /\ (Has(lo, "write") => Truthy(lo, "write")) =>
                       /\ written # << >>
                       /\ written[Len(written)] =
                              (IF custom THEN Hello
                               ELSE Log2_defaultFormatter(Assign(fo, Log2_RawStyling)))

\* C24: once a custom formatter is assigned through format, log() prints and
\* writes that formatter's text and the options report it as the formatter;
\* before the assignment log() renders with the default formatter.
C24_CustomFormatter ==
    /\ logger = "Log2.defaultLogger" => LogRendersWithFormatter
    /\ formatter = "hello" => options.formatter = "hello"

====
